---- MODULE Spec2Model ----
(***************************************************************************)
(* Restaurant reservation system: the four domain tools of server.py over  *)
(* the relational store of models.py, and the orchestration loop of        *)
(* services.py with its conversation history.                              *)
(*                                                                         *)
(* Encodings.  Time is counted in half hours, so timedelta(hours=1) is     *)
(* HOUR = 2.  A Python str is a sequence of one-character strings, the     *)
(* empty sequence being "" (falsy).  An optional value is <<>> for None    *)
(* and <<v>> for v.  A date_time argument is a record [k, t]: k = "iso"    *)
(* for a string datetime.fromisoformat accepts (t its instant), "bad" for  *)
(* a non-empty string it rejects, "none" for None or "".                   *)
(***************************************************************************)
EXTENDS Integers, Sequences, FiniteSets, TLC

VARIABLES reservations, feedback, call, ret, prev, procs, messages, reqs, turns

storeVars == <<reservations, feedback>>

(* State of the parts a tool call answered in one step does not touch *)
elsewhere == <<procs, messages, reqs, turns>>

----------------------------------------------------------------------------
(* Bounds of the model: instants are 0..MaxTime, guest counts 0..MaxGuests, *)
(* and the primary keys handed out stop at MaxReservations (reservations)  *)
(* and MaxFeedback (feedback); NumProcs server processes run at once;      *)
(* NumUsers end users send MaxTurns queries in all, and the model asks for *)
(* at most MaxToolCalls tool calls in one response (MaxSessionCalls when   *)
(* several end users are served at once).                                  *)

MaxTime == 3
MaxGuests == 2
MaxReservations == 2
MaxFeedback == 1
NumProcs == 2
NumUsers == 2
MaxTurns == 3
MaxToolCalls == 5
MaxSessionCalls == 1

(* ReservationAgent.MAX_MEMORY *)
MAX_MEMORY == 5

(* timedelta(hours=1), in half hours *)
HOUR == 2

Times == 0..MaxTime

Iso(t) == [k |-> "iso", t |-> t]
BadDate == [k |-> "bad", t |-> 0]
NoDate == [k |-> "none", t |-> 0]

----------------------------------------------------------------------------
(* The restaurants table (models.Restaurant), in primary-key order.  The   *)
(* tools never write it.                                                   *)

Restaurants ==
    << [id |-> 1, name |-> <<"a", "b">>, location |-> <<"x">>,
        seating_capacity |-> 2, amenities |-> <<"r">>],
       [id |-> 2, name |-> <<"c", "b">>, location |-> <<"y">>,
        seating_capacity |-> 2, amenities |-> <<>>] >>

----------------------------------------------------------------------------
(* Inputs of the tools *)

GuestArgs == 0..MaxGuests
IsoDates == {Iso(t) : t \in Times}
RatingArgs == {<<>>, <<4>>}
CommentArgs == {<<>>, <<"ok">>}

----------------------------------------------------------------------------
(* SQL ILIKE: case-insensitive LIKE, % any run of characters, _ any one.   *)

Lower(c) == CASE c = "A" -> "a" [] c = "B" -> "b" [] c = "C" -> "c"
              [] c = "X" -> "x" [] c = "Y" -> "y" [] c = "Z" -> "z"
              [] c = "R" -> "r" [] OTHER -> c

RECURSIVE ilike(_, _)
ilike(s, p) ==
    IF p = <<>> THEN s = <<>>
    ELSE IF Head(p) = "%"
         THEN ilike(s, Tail(p)) \/ (s # <<>> /\ ilike(Tail(s), p))
         ELSE /\ s # <<>>
              /\ (Head(p) = "_" \/ Lower(Head(p)) = Lower(Head(s)))
              /\ ilike(Tail(s), Tail(p))

(* f"%{x}%" *)
Contains(x) == <<"%">> \o x \o <<"%">>

(* Query.first(): the row of least primary key among those the query      *)
(* selects; <<>> (None) when it selects none.                              *)
First(rows) ==
    IF rows = {} THEN <<>>
    ELSE <<CHOOSE r \in rows : \A q \in rows : r.id <= q.id>>

RestaurantRows == {Restaurants[i] : i \in DOMAIN Restaurants}

(* db.query(Restaurant).filter(Restaurant.name.ilike(f"%{restaurant_name}%")) *)
NamedLike(restaurant_name) ==
    {row \in RestaurantRows : ilike(row.name, Contains(restaurant_name))}

(* sum(res.guests for res in existing_reservations) *)
RECURSIVE SumGuests(_)
SumGuests(rows) ==
    IF rows = {} THEN 0
    ELSE LET r == CHOOSE q \in rows : TRUE
         IN  r.guests + SumGuests(rows \ {r})

(* A window that only looks ahead of the requested time *)
InWindowAhead(t, T) == t >= T /\ t <= T + HOUR

(* A window that leaves out its two end instants *)
InWindowOpen(t, T) == t > T - HOUR /\ t < T + HOUR

(* The overlap filter of check_availability and make_reservation:          *)
(* reservation_time >= T - 1h and reservation_time <= T + 1h               *)
InWindow(t, T) == t >= T - HOUR /\ t <= T + HOUR

existing_reservations(rid, T) ==
    {r \in reservations : r.restaurant_id = rid /\ InWindow(r.reservation_time, T)}

total_guests(rid, T) == SumGuests(existing_reservations(rid, T))

(* The next autoincrement primary key of a table *)
NextId(rows) ==
    IF rows = {} THEN 1
    ELSE 1 + (CHOOSE i \in {r.id : r \in rows} : \A r \in rows : r.id <= i)

----------------------------------------------------------------------------
(* What a tool call hands back: outcome "return" with the returned dict,   *)
(* or outcome "raise" (msg the exception) when the function raises instead *)
(* of returning.  Of the dict: success is "success" ("available" for       *)
(* check_availability), msg the kind of "message", restaurant the id of the *)
(* restaurant the call resolved (0: none), slots "available_slots".  The   *)
(* remaining fields of the dicts repeat arguments and restaurant columns.  *)

NoRet ==
    [op |-> "none", outcome |-> "return", success |-> FALSE, msg |-> "",
     restaurant |-> 0, slots |-> <<>>]

Raise(op, exc) == [NoRet EXCEPT !.op = op, !.outcome = "raise", !.msg = exc]

----------------------------------------------------------------------------
(* check_availability *)

CheckFilter(location, preferences, restaurant, row) ==
    /\ ilike(row.location, location)
    /\ restaurant # <<>> => ilike(row.name, Contains(restaurant))
    /\ \A i \in DOMAIN preferences : ilike(row.amenities, Contains(preferences[i]))

(* A test that wants one seat more than the party needs *)
is_available_strict(row, T, guests) ==
    row.seating_capacity - total_guests(row.id, T) > guests

is_available(row, T, guests) ==
    row.seating_capacity - total_guests(row.id, T) >= guests

(* Fallback slots that are offered only where the party still fits *)
available_slots_rechecked(row, T, guests) ==
    IF is_available(row, T, guests) THEN <<T>>
    ELSE SelectSeq([i \in 1..3 |-> T + i * HOUR],
                   LAMBDA t : is_available(row, t, guests))

available_slots(row, T, guests) ==
    IF is_available(row, T, guests) THEN <<T>>
    ELSE [i \in 1..3 |-> T + i * HOUR]

check_availability(location, date_time, guests, preferences, restaurant) ==
    /\ UNCHANGED storeVars
    /\ IF date_time.k # "iso"
       THEN ret' = Raise("check_availability", "ValueError")
       ELSE LET m == First({row \in RestaurantRows :
                                CheckFilter(location, preferences, restaurant, row)})
            IN  IF m = <<>>
                THEN ret' = [NoRet EXCEPT !.op = "check_availability"]
                ELSE ret' = [NoRet EXCEPT
                               !.op = "check_availability",
                               !.success = is_available(m[1], date_time.t, guests),
                               !.restaurant = m[1].id,
                               !.slots = available_slots(m[1], date_time.t, guests)]

----------------------------------------------------------------------------
(* make_reservation *)

(* A capacity test that forgets the guests being booked *)
SlotFullNoGuests(row, T, guests) ==
    total_guests(row.id, T) > row.seating_capacity

SlotFull(row, T, guests) ==
    total_guests(row.id, T) + guests > row.seating_capacity

make_reservation(user_name, user_contact, restaurant_name, date_time, guests) ==
    IF date_time.k # "iso"
    THEN /\ ret' = Raise("make_reservation", "ValueError")
         /\ UNCHANGED storeVars
    ELSE LET m == First(NamedLike(restaurant_name))
         IN  IF m = <<>>
             THEN /\ ret' = [NoRet EXCEPT !.op = "make_reservation",
                                          !.msg = "No restaurant found"]
                  /\ UNCHANGED storeVars
             ELSE IF SlotFull(m[1], date_time.t, guests)
             THEN /\ ret' = [NoRet EXCEPT !.op = "make_reservation",
                                          !.msg = "Selected time slot is full",
                                          !.restaurant = m[1].id]
                  /\ UNCHANGED storeVars
             ELSE /\ NextId(reservations) <= MaxReservations
                  /\ reservations' = reservations \cup
                        {[id |-> NextId(reservations),
                          user_name |-> user_name,
                          user_contact |-> user_contact,
                          restaurant_id |-> m[1].id,
                          reservation_time |-> date_time.t,
                          guests |-> guests]}
                  /\ UNCHANGED feedback
                  /\ ret' = [NoRet EXCEPT !.op = "make_reservation",
                                          !.success = TRUE,
                                          !.msg = "Reservation confirmed",
                                          !.restaurant = m[1].id]

----------------------------------------------------------------------------
(* cancel_reservation *)

(* db.delete(reservation); db.commit().  Reservation.feedback is the       *)
(* backref of UserFeedback.reservation with the default cascade, so the    *)
(* flush first sets reservation_id of every feedback row of the deleted    *)
(* reservation to NULL; the column is nullable=False, the UPDATE fails     *)
(* with IntegrityError and nothing is committed.                           *)
DeleteBlocked(r) == \E f \in feedback : f.reservation_id = r.id

(* A delete that is never committed *)
DeleteReservationLost(r) ==
    IF DeleteBlocked(r)
    THEN /\ ret' = Raise("cancel_reservation", "IntegrityError")
         /\ UNCHANGED storeVars
    ELSE /\ UNCHANGED storeVars
         /\ ret' = [NoRet EXCEPT !.op = "cancel_reservation",
                                 !.success = TRUE,
                                 !.msg = "Reservation successfully canceled"]

(* A delete by filter on the guest's contact instead of by row *)
DeleteReservationByContact(r) ==
    IF DeleteBlocked(r)
    THEN /\ ret' = Raise("cancel_reservation", "IntegrityError")
         /\ UNCHANGED storeVars
    ELSE /\ reservations' = {q \in reservations : q.user_contact # r.user_contact}
         /\ UNCHANGED feedback
         /\ ret' = [NoRet EXCEPT !.op = "cancel_reservation",
                                 !.success = TRUE,
                                 !.msg = "Reservation successfully canceled"]

DeleteReservation(r) ==
    IF DeleteBlocked(r)
    THEN /\ ret' = Raise("cancel_reservation", "IntegrityError")
         /\ UNCHANGED storeVars
    ELSE /\ reservations' = reservations \ {r}
         /\ UNCHANGED feedback
         /\ ret' = [NoRet EXCEPT !.op = "cancel_reservation",
                                 !.success = TRUE,
                                 !.msg = "Reservation successfully canceled"]

CancelFail(msg) ==
    /\ ret' = [NoRet EXCEPT !.op = "cancel_reservation", !.msg = msg]
    /\ UNCHANGED storeVars

(* A test that takes every reservation_id other than None *)
TruthyProvided(reservation_id) == reservation_id # <<>>

(* "if reservation_id:": None and 0 are falsy *)
Truthy(reservation_id) == reservation_id # <<>> /\ reservation_id[1] # 0

ById(reservation_id) ==
    First({r \in reservations : r.id = reservation_id[1]})

ByTriple(user_contact, row, T) ==
    First({r \in reservations :
                         /\ r.user_contact = user_contact
                         /\ r.restaurant_id = row.id
                         /\ r.reservation_time = T})

cancel_reservation(reservation_id, user_contact, restaurant_name, date_time) ==
    IF Truthy(reservation_id)
    THEN LET found == ById(reservation_id)
         IN  IF found = <<>>
             THEN CancelFail("No reservation found with ID")
             ELSE DeleteReservation(found[1])
    ELSE IF user_contact # "" /\ restaurant_name # <<>> /\ date_time.k # "none"
    THEN IF date_time.k # "iso"
         THEN /\ ret' = Raise("cancel_reservation", "ValueError")
              /\ UNCHANGED storeVars
         ELSE LET m == First(NamedLike(restaurant_name))
              IN  IF m = <<>>
                  THEN CancelFail("No restaurant found")
                  ELSE LET found == ByTriple(user_contact, m[1], date_time.t)
                       IN  IF found = <<>>
                           THEN CancelFail("No matching reservation found")
                           ELSE DeleteReservation(found[1])
    ELSE CancelFail("Please provide either reservation ID or details")

----------------------------------------------------------------------------
(* submit_feedback *)

(* A lookup that also turns away feedback without a rating *)
FeedbackTargetRated(reservation_id, rating) ==
    IF reservation_id = <<>> \/ rating = <<>> THEN <<>> ELSE ById(reservation_id)

(* db.query(Reservation).filter(Reservation.id == reservation_id).first() *)
FeedbackTarget(reservation_id, rating) ==
    IF reservation_id = <<>> THEN <<>> ELSE ById(reservation_id)

submit_feedback(reservation_id, rating, comments) ==
    LET found == FeedbackTarget(reservation_id, rating)
    IN  IF found = <<>>
        THEN /\ ret' = [NoRet EXCEPT !.op = "submit_feedback",
                                     !.msg = "No reservation found with ID"]
             /\ UNCHANGED storeVars
        ELSE /\ NextId(feedback) <= MaxFeedback
             /\ feedback' = feedback \cup
                   {[id |-> NextId(feedback),
                     reservation_id |-> reservation_id[1],
                     rating |-> rating,
                     comments |-> comments]}
             /\ UNCHANGED reservations
             /\ ret' = [NoRet EXCEPT !.op = "submit_feedback",
                                     !.success = TRUE,
                                     !.msg = "Thank you for your feedback"]

----------------------------------------------------------------------------
(* A tool call in flight: the tool's name and its arguments as the tool    *)
(* transport hands them to the function (parameters a tool does not have   *)
(* stay at the defaults below).                                            *)

NoCall ==
    [op |-> "none", location |-> <<>>, date_time |-> NoDate, guests |-> 0,
     preferences |-> <<>>, restaurant |-> <<>>, user_name |-> "",
     user_contact |-> "", restaurant_name |-> <<>>, reservation_id |-> <<>>,
     rating |-> <<>>, comments |-> <<>>]

CheckCalls(locations, dates, guestCounts, prefs, names) ==
    {[NoCall EXCEPT !.op = "check_availability", !.location = l, !.date_time = d,
                    !.guests = g, !.preferences = p, !.restaurant = n] :
        l \in locations, d \in dates, g \in guestCounts, p \in prefs, n \in names}

MakeCalls(users, contacts, names, dates, guestCounts) ==
    {[NoCall EXCEPT !.op = "make_reservation", !.user_name = u, !.user_contact = c,
                    !.restaurant_name = n, !.date_time = d, !.guests = g] :
        u \in users, c \in contacts, n \in names, d \in dates, g \in guestCounts}

CancelCalls(ids, contacts, names, dates) ==
    {[NoCall EXCEPT !.op = "cancel_reservation", !.reservation_id = i,
                    !.user_contact = c, !.restaurant_name = n, !.date_time = d] :
        i \in ids, c \in contacts, n \in names, d \in dates}

FeedbackCalls(ids, ratings, texts) ==
    {[NoCall EXCEPT !.op = "submit_feedback", !.reservation_id = i,
                    !.rating = r, !.comments = t] :
        i \in ids, r \in ratings, t \in texts}

(* A caller sends one tool call while none is in flight.  prev is history: *)
(* the cancel_reservation call that was last answered with success, kept   *)
(* for as long as the calls that follow repeat it word for word (in        *)
(* SpecAgree, the check_availability call whose booking was sent last).    *)
Request(calls) ==
    /\ call.op = "none"
    /\ call' \in calls
    /\ prev' = IF call' = prev THEN prev ELSE NoCall
    /\ ret' = NoRet
    /\ UNCHANGED <<storeVars, elsewhere>>

(* The tool function runs on the call in flight and answers it *)
CheckAvailability ==
    /\ call.op = "check_availability"
    /\ check_availability(call.location, call.date_time, call.guests,
                          call.preferences, call.restaurant)
    /\ call' = NoCall
    /\ UNCHANGED <<prev, elsewhere>>

MakeReservation ==
    /\ call.op = "make_reservation"
    /\ make_reservation(call.user_name, call.user_contact, call.restaurant_name,
                        call.date_time, call.guests)
    /\ call' = NoCall
    /\ UNCHANGED <<prev, elsewhere>>

CancelReservation ==
    /\ call.op = "cancel_reservation"
    /\ cancel_reservation(call.reservation_id, call.user_contact,
                          call.restaurant_name, call.date_time)
    /\ call' = NoCall
    /\ prev' = IF ret'.success THEN call ELSE prev
    /\ UNCHANGED elsewhere

SubmitFeedback ==
    /\ call.op = "submit_feedback"
    /\ submit_feedback(call.reservation_id, call.rating, call.comments)
    /\ call' = NoCall
    /\ UNCHANGED <<prev, elsewhere>>

Procs == 1..NumProcs

(* A server process that has no call yet *)
IdleProc == [pc |-> "idle", call |-> NoCall, restaurant |-> 0, total |-> 0, ret |-> NoRet]

Users == 1..NumUsers

(* A message of the history.  role is the role sent to the model; kind     *)
(* tells which statement appended it ("called": "I called the tool ...",   *)
(* "result": "The tool returned ...", "summary": the model's summary);     *)
(* user, turn and idx tell for which end user, in which turn (turns are    *)
(* numbered as they start) and for which tool call of the turn.            *)
Msg(role, kind, r, idx) ==
    [role |-> role, kind |-> kind, user |-> r, turn |-> reqs[r].turn, idx |-> idx]

(* ReservationAgent.__post_init__ *)
SystemMsg == [role |-> "system", kind |-> "system", user |-> 0, turn |-> 0, idx |-> 0]

(* No result yet *)
NoResult == [kind |-> "none", from |-> "", idx |-> 0, context |-> <<>>]

(* A request of an end user before its first query.  trace lists the       *)
(* external calls of the turn that have ended, in the order they ended:    *)
(* ev the call ("list_tools", "plan", "tool", "summary"), idx the tool     *)
(* call it belongs to, out how it ended ("ok", "raise"; for the planning   *)
(* call "answer" or "tools" instead of "ok").                              *)
IdleReq ==
    [pc |-> "idle", turn |-> 0, start |-> <<>>, sent |-> <<>>, n |-> 0, bad |-> 0,
     idx |-> 0, result |-> NoResult, trace |-> <<>>]

(* The awaited external call of request r has ended *)
Logged(rq, r, ev, idx, out) ==
    [rq EXCEPT ![r].trace = Append(@, [ev |-> ev, idx |-> idx, out |-> out])]

vars == <<reservations, feedback, call, ret, prev, procs, messages, reqs, turns>>

Init ==
    /\ reservations = {}
    /\ feedback = {}
    /\ call = NoCall
    /\ ret = NoRet
    /\ prev = NoCall
    /\ procs = [p \in Procs |-> IdleProc]
    /\ messages = <<SystemMsg>>
    /\ reqs = [r \in Users |-> IdleReq]
    /\ turns = 0

----------------------------------------------------------------------------
(* Spec: the capacity engine under tool calls that run one after another.  *)
(* One guest looks up, books and cancels at both restaurants; no feedback  *)
(* is given.                                                               *)

EngineCalls ==
    CheckCalls({<<"X">>, <<"y">>}, IsoDates \cup {BadDate}, GuestArgs,
               {<<>>, << <<"r">> >>}, {<<>>, <<"B">>, <<"z">>})
    \cup MakeCalls({"u1"}, {"c1"}, {<<"a">>, <<"B">>, <<"c">>, <<"z">>},
                   IsoDates \cup {BadDate}, GuestArgs)
    \cup CancelCalls({<<i>> : i \in 1..(MaxReservations + 1)}, {""}, {<<>>}, {NoDate})
    \cup CancelCalls({<<>>, <<0>>}, {"", "c1"}, {<<>>, <<"B">>, <<"c">>},
                     IsoDates \cup {BadDate, NoDate})

EngineRequest == Request(EngineCalls)

Next ==
    \/ EngineRequest
    \/ CheckAvailability
    \/ MakeReservation
    \/ CancelReservation

Spec == Init /\ [][Next]_vars

----------------------------------------------------------------------------
(* SpecCancel: cancellation and feedback under tool calls that run one     *)
(* after another.  Two guests book tables for one at either restaurant,    *)
(* cancel by id, by contact, restaurant and time, or with both given, and  *)
(* give feedback.                                                          *)

DeskCalls ==
    MakeCalls({"u1"}, {"c1", "c2"}, {<<"a">>, <<"c">>}, IsoDates, {1})
    \cup CancelCalls({<<i>> : i \in 1..(MaxReservations + 1)}, {""}, {<<>>}, {NoDate})
    \cup CancelCalls({<<>>}, {"c1", "c2"}, {<<"B">>, <<"c">>}, IsoDates \cup {BadDate})
    \cup CancelCalls({<<>>, <<0>>}, {"", "c1"}, {<<>>, <<"z">>}, {NoDate, Iso(0)})
    \cup CancelCalls({<<i>> : i \in 0..(MaxReservations + 1)}, {"c1"}, {<<"B">>}, {Iso(0)})
    \cup FeedbackCalls({<<i>> : i \in 0..(MaxReservations + 1)}, RatingArgs, CommentArgs)

DeskRequest == Request(DeskCalls)

NextCancel ==
    \/ DeskRequest
    \/ MakeReservation
    \/ CancelReservation
    \/ SubmitFeedback

SpecCancel == Init /\ [][NextCancel]_vars

----------------------------------------------------------------------------
(* SpecAgree: a guest looks a table up and books it.  Every                *)
(* check_availability call that matches a restaurant is followed, with no  *)
(* other call in between, by the make_reservation call for the same        *)
(* restaurant name, time and guests; other bookings and cancellations fill *)
(* and empty the store around such pairs.                                  *)

AgreeCalls ==
    CheckCalls({<<"X">>, <<"y">>}, IsoDates \cup {BadDate}, 1..MaxGuests,
               {<<>>, << <<"r">> >>}, {<<"a">>, <<"B">>, <<"c">>, <<"z">>})
    \cup MakeCalls({"u2"}, {"c2"}, {<<"a">>, <<"c">>}, IsoDates, 1..MaxGuests)
    \cup CancelCalls({<<i>> : i \in 1..MaxReservations}, {""}, {<<>>}, {NoDate})

AgreeRequest == Request(AgreeCalls)

(* The make_reservation call that books what the check_availability call c *)
(* asked about                                                             *)
BookingFor(c) ==
    [NoCall EXCEPT !.op = "make_reservation", !.user_name = "u1",
                   !.user_contact = "c1", !.restaurant_name = c.restaurant,
                   !.date_time = c.date_time, !.guests = c.guests]

(* check_availability answers the call in flight; when it matched a        *)
(* restaurant the booking goes out next, and prev keeps the lookup it      *)
(* belongs to.                                                             *)
CheckThenBook ==
    /\ call.op = "check_availability"
    /\ check_availability(call.location, call.date_time, call.guests,
                          call.preferences, call.restaurant)
    /\ IF ret'.outcome = "return" /\ ret'.restaurant # 0
       THEN call' = BookingFor(call) /\ prev' = call
       ELSE call' = NoCall /\ prev' = prev
    /\ UNCHANGED elsewhere

NextAgree ==
    \/ AgreeRequest
    \/ CheckThenBook
    \/ MakeReservation
    \/ CancelReservation

SpecAgree == Init /\ [][NextAgree]_vars

----------------------------------------------------------------------------
(* SpecConc: make_reservation in server processes that run at the same     *)
(* time on the one store (every turn of the agent starts its own server    *)
(* process).  Each process serves one call.  The function reads the        *)
(* overlapping reservations in one statement and inserts in a later one;   *)
(* nothing holds the store between the two, so the steps of the processes  *)
(* interleave there.                                                       *)

ConcCalls ==
    MakeCalls({"u1"}, {"c1"}, {<<"a">>, <<"c">>, <<"z">>}, IsoDates \cup {BadDate},
              1..MaxGuests)

ConcBegin(p) ==
    /\ procs[p].pc = "idle"
    /\ \E c \in ConcCalls : procs' = [procs EXCEPT ![p].pc = "read", ![p].call = c]
    /\ UNCHANGED <<storeVars, call, ret, prev, messages, reqs, turns>>

(* Up to the capacity test: parse the date, resolve the restaurant, sum    *)
(* the guests of the overlapping reservations, compare with the capacity.  *)
ConcRead(p) ==
    /\ procs[p].pc = "read"
    /\ LET c == procs[p].call
           m == First(NamedLike(c.restaurant_name))
       IN  IF c.date_time.k # "iso"
           THEN procs' = [procs EXCEPT ![p].pc = "done",
                                       ![p].ret = Raise("make_reservation", "ValueError")]
           ELSE IF m = <<>>
           THEN procs' = [procs EXCEPT
                            ![p].pc = "done",
                            ![p].ret = [NoRet EXCEPT !.op = "make_reservation",
                                                     !.msg = "No restaurant found"]]
           ELSE IF SlotFull(m[1], c.date_time.t, c.guests)
           THEN procs' = [procs EXCEPT
                            ![p].pc = "done",
                            ![p].restaurant = m[1].id,
                            ![p].total = total_guests(m[1].id, c.date_time.t),
                            ![p].ret = [NoRet EXCEPT !.op = "make_reservation",
                                                     !.msg = "Selected time slot is full",
                                                     !.restaurant = m[1].id]]
           ELSE procs' = [procs EXCEPT
                            ![p].pc = "insert",
                            ![p].restaurant = m[1].id,
                            ![p].total = total_guests(m[1].id, c.date_time.t)]
    /\ UNCHANGED <<storeVars, call, ret, prev, messages, reqs, turns>>

(* An insert that tests the capacity again, in one step with the insert *)
ConcInsertChecked(p) ==
    LET c == procs[p].call
        row == Restaurants[procs[p].restaurant]
    IN  /\ procs[p].pc = "insert"
        /\ IF SlotFull(row, c.date_time.t, c.guests)
           THEN /\ procs' = [procs EXCEPT
                               ![p].pc = "done",
                               ![p].ret = [NoRet EXCEPT !.op = "make_reservation",
                                                        !.msg = "Selected time slot is full",
                                                        !.restaurant = row.id]]
                /\ UNCHANGED reservations
           ELSE /\ NextId(reservations) <= MaxReservations
                /\ reservations' = reservations \cup
                      {[id |-> NextId(reservations), user_name |-> c.user_name,
                        user_contact |-> c.user_contact, restaurant_id |-> row.id,
                        reservation_time |-> c.date_time.t, guests |-> c.guests]}
                /\ procs' = [procs EXCEPT
                               ![p].pc = "done",
                               ![p].ret = [NoRet EXCEPT !.op = "make_reservation",
                                                        !.success = TRUE,
                                                        !.msg = "Reservation confirmed",
                                                        !.restaurant = row.id]]
        /\ UNCHANGED <<feedback, call, ret, prev, messages, reqs, turns>>

(* db.add(new_reservation); db.commit(); return the confirmation *)
ConcInsert(p) ==
    LET c == procs[p].call
    IN  /\ procs[p].pc = "insert"
        /\ NextId(reservations) <= MaxReservations
        /\ reservations' = reservations \cup
              {[id |-> NextId(reservations), user_name |-> c.user_name,
                user_contact |-> c.user_contact, restaurant_id |-> procs[p].restaurant,
                reservation_time |-> c.date_time.t, guests |-> c.guests]}
        /\ procs' = [procs EXCEPT
                       ![p].pc = "done",
                       ![p].ret = [NoRet EXCEPT !.op = "make_reservation",
                                                !.success = TRUE,
                                                !.msg = "Reservation confirmed",
                                                !.restaurant = procs[p].restaurant]]
        /\ UNCHANGED <<feedback, call, ret, prev, messages, reqs, turns>>

NextConc ==
    \E p \in Procs :
       \/ ConcBegin(p)
       \/ ConcRead(p)
       \/ ConcInsert(p)

SpecConc == Init /\ [][NextConc]_vars

----------------------------------------------------------------------------
(* SpecAgent: the orchestration loop.  main.py hands every request to the  *)
(* one module-level agent `chat`, so the turns of all end users work on    *)
(* the same messages list; a turn gives up control at each await (tool     *)
(* discovery, a model call, a tool invocation) and the turns of other      *)
(* requests run there.  The text of a message is left out; who appended it *)
(* and for which tool call is kept.                                        *)

(* user_assistant_msgs[-(self.MAX_MEMORY * 2):] *)
LastN(seq, k) ==
    IF Len(seq) <= k THEN seq ELSE SubSeq(seq, Len(seq) - k + 1, Len(seq))

(* A retention that counts the system message in the window *)
chat_history_all(msgs) == LastN(msgs, MAX_MEMORY * 2)

(* A retention of MAX_MEMORY messages instead of MAX_MEMORY exchanges *)
chat_history_short(msgs) ==
    LET system_msg == SelectSeq(msgs, LAMBDA m : m.role = "system")
        user_assistant_msgs == SelectSeq(msgs, LAMBDA m : m.role \in {"user", "assistant"})
    IN  system_msg \o LastN(user_assistant_msgs, MAX_MEMORY)

(* ReservationAgent.chat_history *)
chat_history(msgs) ==
    LET system_msg == SelectSeq(msgs, LAMBDA m : m.role = "system")
        user_assistant_msgs == SelectSeq(msgs, LAMBDA m : m.role \in {"user", "assistant"})
    IN  system_msg \o LastN(user_assistant_msgs, MAX_MEMORY * 2)

agentFrame == <<reservations, feedback, call, ret, prev, procs>>

(* The turn of request r ends and hands back `result` *)
Return(r, kind, from, idx, msgs) ==
    [reqs EXCEPT ![r].pc = "done",
                 ![r].result = [kind |-> kind, from |-> from, idx |-> idx,
                                context |-> msgs]]

(* The request arrives: process_query of main.py calls chat.run_query *)
BeginTurn(r) ==
    /\ reqs[r].pc \in {"idle", "done"}
    /\ turns < MaxTurns
    /\ turns' = turns + 1
    /\ reqs' = [reqs EXCEPT ![r] = [IdleReq EXCEPT !.pc = "connect",
                                                   !.turn = turns + 1,
                                                   !.start = messages]]
    /\ UNCHANGED <<messages, agentFrame>>

(* run_query: the server process starts and the session initializes *)
Connect(r) ==
    /\ reqs[r].pc = "connect"
    /\ reqs' = [reqs EXCEPT ![r].pc = "list_tools"]
    /\ UNCHANGED <<messages, turns, agentFrame>>

(* run_query raises; main.py answers with HTTP status 500 *)
ConnectFail(r) ==
    /\ reqs[r].pc = "connect"
    /\ reqs' = Return(r, "http500", "", 0, <<>>)
    /\ UNCHANGED <<messages, turns, agentFrame>>

(* A failed discovery that leaves a note of the failure in the history *)
ListToolsFailNoted(r) ==
    /\ reqs[r].pc = "list_tools"
    /\ messages' = messages \o <<Msg("assistant", "summary", r, 0)>>
    /\ reqs' = Logged(Return(r, "error", "Failed to fetch tools from backend.", 0, <<>>),
                      r, "list_tools", 0, "raise")
    /\ UNCHANGED <<turns, agentFrame>>

(* list_tools raises *)
ListToolsFail(r) ==
    /\ reqs[r].pc = "list_tools"
    /\ reqs' = Logged(Return(r, "error", "Failed to fetch tools from backend.", 0, <<>>),
                      r, "list_tools", 0, "raise")
    /\ UNCHANGED <<messages, turns, agentFrame>>

(* list_tools answers; the planning call goes out with                     *)
(* self.messages + [the user's query]                                      *)
ListTools(r) ==
    /\ reqs[r].pc = "list_tools"
    /\ reqs' = Logged([reqs EXCEPT ![r].pc = "plan",
                                   ![r].sent = messages \o <<Msg("user", "query", r, 0)>>],
                      r, "list_tools", 0, "ok")
    /\ UNCHANGED <<messages, turns, agentFrame>>

(* The planning call raises *)
PlanFail(r) ==
    /\ reqs[r].pc = "plan"
    /\ reqs' = Logged(Return(r, "error", "Failed to process query.", 0, <<>>),
                      r, "plan", 0, "raise")
    /\ UNCHANGED <<messages, turns, agentFrame>>

(* A turn that returns nothing when the model asks for no tool call *)
PlanAnswerSilent(r) ==
    /\ reqs[r].pc = "plan"
    /\ reqs' = Logged(Return(r, "none", "", 0, messages), r, "plan", 0, "answer")
    /\ UNCHANGED <<messages, turns, agentFrame>>

(* The model answers without tool calls: the loop body never runs and the  *)
(* answer is returned.                                                     *)
PlanAnswer(r) ==
    /\ reqs[r].pc = "plan"
    /\ reqs' = Logged(Return(r, "reply", "plan", 0, messages), r, "plan", 0, "answer")
    /\ UNCHANGED <<messages, turns, agentFrame>>

(* What follows the end of tool call idx - 1 of n: json.loads of the       *)
(* arguments of tool call idx, which raises when idx = bad, then the tool  *)
(* invocation; after the last tool call the return.                        *)
Advance(r, n, bad, idx, msgs) ==
    IF idx > n
    THEN Return(r, "reply", "summary", n, msgs)
    ELSE IF idx = bad
    THEN [Return(r, "error", "Failed to process query.", 0, <<>>)
            EXCEPT ![r].n = n, ![r].bad = bad, ![r].idx = idx]
    ELSE [reqs EXCEPT ![r].pc = "call_tool", ![r].n = n, ![r].bad = bad, ![r].idx = idx]

(* The model asks for n tool calls; the arguments of tool call `bad` (if   *)
(* any) are not JSON.                                                      *)
PlanTools(r, most) ==
    /\ reqs[r].pc = "plan"
    /\ \E n \in 1..most :
          \E bad \in 0..n :
             reqs' = Logged(Advance(r, n, bad, 1, messages), r, "plan", 0, "tools")
    /\ UNCHANGED <<messages, turns, agentFrame>>

(* call_tool raises *)
ToolFail(r) ==
    /\ reqs[r].pc = "call_tool"
    /\ reqs' = Logged(Return(r, "error", "Failed to process query.", 0, <<>>),
                      r, "tool", reqs[r].idx, "raise")
    /\ UNCHANGED <<messages, turns, agentFrame>>

(* A loop that goes on to the next tool call without asking for a summary *)
ToolReturnUnsummarized(r) ==
    /\ reqs[r].pc = "call_tool"
    /\ messages' = messages \o <<Msg("assistant", "called", r, reqs[r].idx),
                                  Msg("user", "result", r, reqs[r].idx)>>
    /\ reqs' = Logged(Advance(r, reqs[r].n, reqs[r].bad, reqs[r].idx + 1, messages'),
                      r, "tool", reqs[r].idx, "ok")
    /\ UNCHANGED <<turns, agentFrame>>

(* call_tool answers: the two messages are appended and the summarization  *)
(* call goes out with self.messages                                        *)
ToolReturn(r) ==
    /\ reqs[r].pc = "call_tool"
    /\ messages' = messages \o <<Msg("assistant", "called", r, reqs[r].idx),
                                  Msg("user", "result", r, reqs[r].idx)>>
    /\ reqs' = Logged([reqs EXCEPT ![r].pc = "summarize", ![r].sent = messages'],
                      r, "tool", reqs[r].idx, "ok")
    /\ UNCHANGED <<turns, agentFrame>>

(* The summarization call raises *)
SummarizeFail(r) ==
    /\ reqs[r].pc = "summarize"
    /\ reqs' = Logged(Return(r, "error", "Failed to process query.", 0, <<>>),
                      r, "summary", reqs[r].idx, "raise")
    /\ UNCHANGED <<messages, turns, agentFrame>>

(* The summary arrives: it is appended, the history is trimmed, and the    *)
(* loop goes on to the next tool call or the turn returns.                 *)
Summarize(r) ==
    /\ reqs[r].pc = "summarize"
    /\ messages' = chat_history(messages \o <<Msg("assistant", "summary", r, reqs[r].idx)>>)
    /\ reqs' = Logged(Advance(r, reqs[r].n, reqs[r].bad, reqs[r].idx + 1, messages'),
                      r, "summary", reqs[r].idx, "ok")
    /\ UNCHANGED <<turns, agentFrame>>

(* The steps of the turns of request r, the model asking for at most      *)
(* `most` tool calls in one response                                       *)
Turn(r, most) ==
    \/ BeginTurn(r)
    \/ Connect(r)
    \/ ConnectFail(r)
    \/ ListToolsFail(r)
    \/ ListTools(r)
    \/ PlanFail(r)
    \/ PlanAnswer(r)
    \/ PlanTools(r, most)
    \/ ToolFail(r)
    \/ ToolReturn(r)
    \/ SummarizeFail(r)
    \/ Summarize(r)

(* One end user, one query at a time *)
NextAgent == Turn(1, MaxToolCalls)

SpecAgent == Init /\ [][NextAgent]_vars

(* SpecSessions: the requests of several end users are served at the same  *)
(* time.                                                                   *)
NextSessions == \E r \in Users : Turn(r, MaxSessionCalls)

SpecSessions == Init /\ [][NextSessions]_vars

----------------------------------------------------------------------------
(* The quantities the specification speaks of, computed from the stored    *)
(* rows one primary key at a time.                                         *)

Abs(x) == IF x < 0 THEN -x ELSE x

RestaurantIds == {Restaurants[i].id : i \in DOMAIN Restaurants}

Capacity(R) ==
    (CHOOSE row \in RestaurantRows : row.id = R).seating_capacity

GuestsOfKey(rows, i, R, T) ==
    LET hit == {r \in rows : /\ r.id = i
                             /\ r.restaurant_id = R
                             /\ Abs(r.reservation_time - T) <= HOUR}
    IN  IF hit = {} THEN 0 ELSE (CHOOSE r \in hit : TRUE).guests

RECURSIVE GuestsUpTo(_, _, _, _)
GuestsUpTo(rows, i, R, T) ==
    IF i = 0 THEN 0
    ELSE GuestsOfKey(rows, i, R, T) + GuestsUpTo(rows, i - 1, R, T)

(* Sum of the guests of R's reservations with time in [T - 1h, T + 1h] *)
WindowGuests(rows, R, T) == GuestsUpTo(rows, NextId(rows) - 1, R, T)

(* Every instant a window around a bookable time can reach *)
WindowTimes == (0 - HOUR)..(MaxTime + HOUR)

----------------------------------------------------------------------------
(* C1: a make_reservation call whose restaurant resolves and whose guests, *)
(* added to the guests already booked for that restaurant within one hour  *)
(* of the requested time, exceed the seating capacity returns              *)
(* success = false and creates no reservation.                             *)
C1_FullSlotRejected ==
    [][( /\ call.op = "make_reservation"
         /\ call.date_time.k = "iso"
         /\ ret'.restaurant # 0
         /\ WindowGuests(reservations, ret'.restaurant, call.date_time.t) + call.guests
               > Capacity(ret'.restaurant) )
       => ( /\ ret'.outcome = "return"
            /\ ret'.success = FALSE
            /\ ret'.msg = "Selected time slot is full"
            /\ reservations' = reservations )]_vars

(* A booking was refused for lack of room while reservations exist *)
C1_Witness ==
    /\ ret.op = "make_reservation"
    /\ ret.msg = "Selected time slot is full"
    /\ \E r \in reservations : r.restaurant_id = ret.restaurant

(* C3: the available flag of check_availability for the matched restaurant *)
(* R is (seating_capacity(R) - guests booked for R in [T - 1h, T + 1h])    *)
(* >= guests; reservations at the two ends of the interval count, those of *)
(* other restaurants or outside it do not.                                 *)
C3_AvailableFlag ==
    [][( /\ call.op = "check_availability"
         /\ call.date_time.k = "iso"
         /\ ret'.restaurant # 0 )
       => ( /\ ret'.outcome = "return"
            /\ ret'.success =
                  (Capacity(ret'.restaurant)
                     - WindowGuests(reservations, ret'.restaurant, call.date_time.t)
                   >= call.guests) )]_vars

(* A lookup was refused because of reservations that all sit exactly one   *)
(* hour before the requested time, while the other restaurant is booked    *)
(* too; slots[1] is the requested time plus one hour.                      *)
C3_Witness ==
    /\ ret.op = "check_availability"
    /\ ret.restaurant # 0
    /\ ~ret.success
    /\ \E r \in reservations : r.restaurant_id = ret.restaurant
    /\ \A r \in reservations :
          r.restaurant_id = ret.restaurant
             => r.reservation_time = ret.slots[1] - HOUR - HOUR
    /\ \E q \in reservations : q.restaurant_id # ret.restaurant

(* C4: a successful cancel_reservation removes one reservation r, and for  *)
(* every restaurant R and time T the guests booked for R within one hour   *)
(* of T drop by r's guests when r is R's and inside that window, and stay  *)
(* the same otherwise.                                                     *)
C4_CancelFrame ==
    [][(call.op = "cancel_reservation" /\ ret'.success)
         => \E r \in reservations :
               /\ reservations' = reservations \ {r}
               /\ \A R \in RestaurantIds, T \in WindowTimes :
                     WindowGuests(reservations', R, T) =
                        WindowGuests(reservations, R, T)
                          - (IF r.restaurant_id = R /\ Abs(r.reservation_time - T) <= HOUR
                             THEN r.guests ELSE 0)]_vars

(* A cancellation succeeded and left another reservation in the store *)
C4_Witness ==
    /\ ret.op = "cancel_reservation"
    /\ ret.success
    /\ reservations # {}

(* C9: no tool raises; every call returns a result *)
C9_NoToolRaises == ret.outcome = "return"

(* The restaurant a restaurant_name argument resolves to (0: none) *)
ResolvedId(restaurant_name) ==
    LET m == First(NamedLike(restaurant_name))
    IN  IF m = <<>> THEN 0 ELSE m[1].id

(* The call in flight names reservation r by its id *)
NamesById(r) == call.reservation_id = <<r.id>>

(* The call in flight names reservation r, and no other, by contact,       *)
(* restaurant and exact time                                               *)
NamesByTriple(r) ==
    /\ call.reservation_id = <<>>
    /\ call.user_contact = r.user_contact
    /\ call.date_time = Iso(r.reservation_time)
    /\ call.restaurant_name # <<>>
    /\ ResolvedId(call.restaurant_name) = r.restaurant_id
    /\ \A q \in reservations :
          ( /\ q.user_contact = r.user_contact
            /\ q.restaurant_id = r.restaurant_id
            /\ q.reservation_time = r.reservation_time ) => q = r

(* C5: for every stored reservation r, cancel_reservation by r's id and    *)
(* cancel_reservation by a contact, restaurant and time that identify r    *)
(* have the same result: success, exactly r removed, nothing else changed. *)
C5_CancelModesAgree ==
    [][\A r \in reservations :
          (call.op = "cancel_reservation" /\ (NamesById(r) \/ NamesByTriple(r)))
          => ( /\ ret'.outcome = "return"
               /\ ret'.success
               /\ reservations' = reservations \ {r}
               /\ feedback' = feedback )]_vars

(* No reservation other than those already gone matches the call's         *)
(* contact, restaurant and time                                            *)
NoTripleMatch(rows) ==
    \A q \in rows :
       ~( /\ q.user_contact = call.user_contact
          /\ q.restaurant_id = ResolvedId(call.restaurant_name)
          /\ q.reservation_time = call.date_time.t )

NotFoundMsgs == {"No reservation found with ID", "No matching reservation found"}

C10_FeedbackRecorded ==
    [][(call.op = "submit_feedback")
       => IF \E r \in reservations : <<r.id>> = call.reservation_id
          THEN /\ ret'.outcome = "return"
               /\ ret'.success
               /\ \E f \in feedback' :
                     /\ f \notin feedback
                     /\ feedback' = feedback \cup {f}
                     /\ <<f.reservation_id>> = call.reservation_id
                     /\ f.rating = call.rating
                     /\ f.comments = call.comments
               /\ reservations' = reservations
          ELSE /\ ret'.outcome = "return"
               /\ ~ret'.success
               /\ feedback' = feedback
               /\ reservations' = reservations]_vars

(* Feedback with neither rating nor comments was recorded *)
C10_Witness ==
    /\ ret.op = "submit_feedback"
    /\ ret.success
    /\ \E f \in feedback : f.rating = <<>> /\ f.comments = <<>>

(* Two processes have answered calls for the same restaurant and times at  *)
(* most one hour apart, and each read the overlapping reservations before  *)
(* the other inserted (each saw no guests in the empty store); each party  *)
(* alone fits the restaurant.                                              *)
BothReadFirst(p, q) ==
    /\ p # q
    /\ procs[p].pc = "done" /\ procs[q].pc = "done"
    /\ procs[p].restaurant # 0
    /\ procs[p].restaurant = procs[q].restaurant
    /\ Abs(procs[p].call.date_time.t - procs[q].call.date_time.t) <= HOUR
    /\ procs[p].total = 0 /\ procs[q].total = 0
    /\ procs[p].call.guests <= Capacity(procs[p].restaurant)
    /\ procs[q].call.guests <= Capacity(procs[q].restaurant)

(* C2: when two make_reservation calls for the same restaurant and         *)
(* overlapping windows both read the overlap before either inserts, both   *)
(* pass the capacity check and both return success, and the store then     *)
(* holds the guests of both within one hour of either time, whatever the   *)
(* capacity.                                                               *)
C2_BothPassStaleCheck ==
    \A p, q \in Procs :
       BothReadFirst(p, q)
       => ( /\ procs[p].ret.success /\ procs[q].ret.success
            /\ WindowGuests(reservations, procs[p].restaurant,
                            procs[p].call.date_time.t)
                  >= procs[p].call.guests + procs[q].call.guests )

(* Both calls returned success and the guests within one hour of one of    *)
(* the booked times exceed the seating capacity                            *)
C2_Overbooked ==
    \E p, q \in Procs :
       /\ BothReadFirst(p, q)
       /\ procs[p].ret.success /\ procs[q].ret.success
       /\ WindowGuests(reservations, procs[p].restaurant, procs[p].call.date_time.t)
             > Capacity(procs[p].restaurant)

(* No turn is under way *)
BetweenTurns == \A r \in Users : reqs[r].pc \in {"idle", "done"}

NonSystem(msgs) == SelectSeq(msgs, LAMBDA m : m.role # "system")

(* seq is what is left of full after dropping some of its first elements *)
IsSuffix(seq, full) ==
    /\ Len(seq) <= Len(full)
    /\ seq = SubSeq(full, Len(full) - Len(seq) + 1, Len(full))

(* C7: after any number of turns, turns that end in an error included, the *)
(* history holds exactly one system message, at position 0, and at most    *)
(* 2 * MAX_MEMORY other messages.                                          *)
C7_HistoryBounded ==
    BetweenTurns
    => ( /\ Len(SelectSeq(messages, LAMBDA m : m.role = "system")) = 1
         /\ messages[1].role = "system"
         /\ Len(NonSystem(messages)) <= 2 * MAX_MEMORY )

(* The turn of request r is under way *)
Active(r) == reqs[r].pc \notin {"idle", "done"}

(* msgs holds a message that the current turn of request q appended *)
HoldsMessageOf(msgs, q) ==
    \E i \in DOMAIN msgs : msgs[i].role # "system" /\ msgs[i].turn = reqs[q].turn

(* C8: when the turns of two end users overlap, no message appended by one *)
(* of the turns is in the history the other turn sent to the model, nor in *)
(* the context the other turn returned.                                    *)
C8_SessionsIndependent ==
    \A r, q \in Users :
       (r # q /\ Active(q) /\ reqs[r].turn > 0)
       => ( /\ Active(r) => ~HoldsMessageOf(reqs[r].sent, q)
            /\ (reqs[r].pc = "done" /\ reqs[q].turn < reqs[r].turn)
                 => ~HoldsMessageOf(reqs[r].result.context, q) )

----------------------------------------------------------------------------
(* The external calls of the turn of request r that have ended *)
Events(r, ev) == SelectSeq(reqs[r].trace, LAMBDA e : e.ev = ev)

(* The turn of request r has ended because tool discovery failed *)
DiscoveryFailed(r) ==
    /\ reqs[r].pc = "done"
    /\ reqs[r].trace # <<>>
    /\ reqs[r].trace[Len(reqs[r].trace)] = [ev |-> "list_tools", idx |-> 0, out |-> "raise"]

(* C11: when list_tools fails the turn ends with an error result, no model *)
(* call and no tool invocation was made in the turn, and the history after *)
(* the turn is the history before it.                                      *)
C11_DiscoveryFailureLeavesHistory ==
    DiscoveryFailed(1)
    => ( /\ reqs[1].result.kind = "error"
         /\ reqs[1].result.from = "Failed to fetch tools from backend."
         /\ Len(reqs[1].trace) = 1
         /\ Events(1, "plan") = <<>>
         /\ Events(1, "summary") = <<>>
         /\ Events(1, "tool") = <<>>
         /\ messages = reqs[1].start )

(* Tool discovery failed in a turn that began with earlier exchanges in    *)
(* the history                                                             *)
C11_Witness ==
    /\ DiscoveryFailed(1)
    /\ Len(reqs[1].start) > 1
    /\ messages = reqs[1].start

(* The turn of request r has ended after a planning response without tool *)
(* calls                                                                   *)
AnsweredDirectly(r) ==
    /\ reqs[r].pc = "done"
    /\ reqs[r].trace # <<>>
    /\ reqs[r].trace[Len(reqs[r].trace)] = [ev |-> "plan", idx |-> 0, out |-> "answer"]

(* C12: when the planning response holds no tool calls and no external     *)
(* call fails, the turn returns a reply, the reply is the text of the      *)
(* planning response, and no tool is invoked.                              *)
C12_DirectAnswerReturned ==
    AnsweredDirectly(1)
    => ( /\ reqs[1].result.kind = "reply"
         /\ reqs[1].result.from = "plan"
         /\ Events(1, "tool") = <<>>
         /\ Events(1, "summary") = <<>>
         /\ Len(reqs[1].trace) = 2 )

(* A direct answer was returned in a turn that followed a turn with tool   *)
(* calls                                                                   *)
C12_Witness ==
    /\ AnsweredDirectly(1)
    /\ reqs[1].result.kind = "reply"
    /\ Len(reqs[1].start) > 1

(* C13: every turn that completes without an error result leaves the       *)
(* history changed and holding the turn's final reply as its last          *)
(* message, an assistant message; turns the model answers without tool     *)
(* calls included.                                                         *)
C13_ExchangeRecorded ==
    (reqs[1].pc = "done" /\ reqs[1].result.kind = "reply")
    => ( /\ messages # reqs[1].start
         /\ messages[Len(messages)].role = "assistant"
         /\ messages[Len(messages)].turn = reqs[1].turn )

(* No restaurant passes the filters of the check_availability call in      *)
(* flight                                                                  *)
NoRestaurantMatches ==
    \A row \in RestaurantRows :
       ~CheckFilter(call.location, call.preferences, call.restaurant, row)

(* C14: a check_availability call leaves the store unchanged; when no      *)
(* restaurant matches, it returns available = false and no slots; when one *)
(* matches and available is true, the slots are the requested time alone;  *)
(* when one matches and available is false, the slots are the requested    *)
(* time plus one, two and three hours, in that order, whatever is booked   *)
(* at those times.                                                         *)
C14_SlotsOffered ==
    [][(call.op = "check_availability")
       => ( /\ reservations' = reservations
            /\ feedback' = feedback
            /\ call.date_time.k = "iso"
               => ( /\ ret'.outcome = "return"
                    /\ IF NoRestaurantMatches
                       THEN ~ret'.success /\ ret'.slots = <<>> /\ ret'.restaurant = 0
                       ELSE /\ ret'.restaurant # 0
                            /\ ret'.slots =
                                  IF ret'.success
                                  THEN <<call.date_time.t>>
                                  ELSE <<call.date_time.t + HOUR,
                                         call.date_time.t + HOUR + HOUR,
                                         call.date_time.t + HOUR + HOUR + HOUR>> ) )]_vars

(* A lookup was refused and the first of the three slots offered instead   *)
(* is itself booked to capacity                                            *)
C14_Witness ==
    /\ ret.op = "check_availability"
    /\ ret.restaurant # 0
    /\ ~ret.success
    /\ Len(ret.slots) = 3
    /\ WindowGuests(reservations, ret.restaurant, ret.slots[1]) >= Capacity(ret.restaurant)

(* C15: every stored reservation has a guest count greater than zero *)
C15_GuestsPositive == \A r \in reservations : r.guests > 0

(* C16: a cancel_reservation call that names a stored reservation with one *)
(* or more feedback rows succeeds, removes that reservation and leaves     *)
(* every feedback row as it was.                                           *)
C16_CancelKeepsFeedback ==
    [][\A r \in reservations :
          ( /\ call.op = "cancel_reservation"
            /\ (NamesById(r) \/ NamesByTriple(r))
            /\ \E f \in feedback : f.reservation_id = r.id )
          => ( /\ ret'.outcome = "return"
               /\ ret'.success
               /\ reservations' = reservations \ {r}
               /\ feedback' = feedback )]_vars

(* The call in flight gives all three of contact, restaurant name and time *)
TripleGiven ==
    call.user_contact # "" /\ call.restaurant_name # <<>> /\ call.date_time.k # "none"

(* The stored reservations the triple of the call in flight matches *)
TripleMatches ==
    {r \in reservations : /\ r.user_contact = call.user_contact
                          /\ r.restaurant_id = ResolvedId(call.restaurant_name)
                          /\ call.date_time = Iso(r.reservation_time)}

(* The stored reservations with the id of the call in flight *)
IdMatches == {r \in reservations : <<r.id>> = call.reservation_id}

(* C17 as written: with a reservationId given, only the id lookup is used  *)
(* (an id that does not exist fails the call, whatever the triple          *)
(* matches); without one, the triple lookup is used when contact,          *)
(* restaurant name and time are all given, and the call fails asking for   *)
(* more information otherwise; a failing call deletes nothing.             *)
C17_LookupPriority ==
    [][(call.op = "cancel_reservation")
       => ( /\ ~ret'.success => reservations' = reservations
            /\ IF call.reservation_id # <<>>
               THEN /\ IdMatches = {} => (ret'.outcome = "return" /\ ~ret'.success)
                    /\ ret'.success => reservations' = reservations \ IdMatches
               ELSE IF TripleGiven
               THEN ret'.success => \E r \in TripleMatches : reservations' = reservations \ {r}
               ELSE /\ ret'.outcome = "return"
                    /\ ~ret'.success
                    /\ ret'.msg = "Please provide either reservation ID or details" )]_vars

(* C17 amended: the id lookup is used when a reservationId other than 0 is *)
(* given; a reservationId of 0 counts as not given.  Without one, the      *)
(* triple lookup is used when contact, restaurant name and time are all    *)
(* given, and the call fails asking for more information otherwise.  A     *)
(* call that does not return success, by a failure result or by raising,   *)
(* deletes nothing.                                                        *)
C17_LookupPriorityNonZeroId ==
    [][(call.op = "cancel_reservation")
       => ( /\ ~ret'.success => (reservations' = reservations /\ feedback' = feedback)
            /\ IF call.reservation_id # <<>> /\ call.reservation_id # <<0>>
               THEN /\ IdMatches = {}
                       => ( /\ ret'.outcome = "return"
                            /\ ~ret'.success
                            /\ ret'.msg = "No reservation found with ID" )
                    /\ IdMatches # {}
                       => ret'.msg \in {"Reservation successfully canceled", "IntegrityError"}
                    /\ ret'.success => reservations' = reservations \ IdMatches
               ELSE IF TripleGiven
               THEN /\ ret'.msg \in {"ValueError", "No restaurant found",
                                     "No matching reservation found",
                                     "Reservation successfully canceled", "IntegrityError"}
                    /\ TripleMatches = {} => ~ret'.success
                    /\ ret'.success
                       => \E r \in TripleMatches : reservations' = reservations \ {r}
               ELSE /\ ret'.outcome = "return"
                    /\ ~ret'.success
                    /\ ret'.msg = "Please provide either reservation ID or details" )]_vars

(* A call with reservationId 0 and a matching triple has cancelled the     *)
(* reservation the triple names                                            *)
C17_Witness ==
    /\ ret.op = "cancel_reservation"
    /\ ret.success
    /\ prev.op = "cancel_reservation"
    /\ prev.reservation_id = <<0>>
    /\ prev.user_contact = "c1"

(* The p-th external call of a turn in a strictly sequential chain:        *)
(* discovery, planning, then for each tool call its invocation followed by *)
(* its summarization                                                       *)
Expected(p) ==
    IF p = 1 THEN [ev |-> "list_tools", idx |-> 0]
    ELSE IF p = 2 THEN [ev |-> "plan", idx |-> 0]
    ELSE IF p % 2 = 1 THEN [ev |-> "tool", idx |-> (p - 1) \div 2]
    ELSE [ev |-> "summary", idx |-> (p - 2) \div 2]

(* C18: the external calls of a turn form one sequential chain: tool       *)
(* discovery, one planning call, then for each requested tool call, in the *)
(* order requested, its invocation followed by its summarization, which    *)
(* ends before the next invocation starts; a turn without errors makes as  *)
(* many tool invocations and as many summarization calls as tool calls     *)
(* were requested, and then returns.                                       *)
C18_SequentialChain ==
    LET q == reqs[1]
    IN  /\ \A p \in DOMAIN q.trace :
              [ev |-> q.trace[p].ev, idx |-> q.trace[p].idx] = Expected(p)
        /\ q.pc = "list_tools" => Len(q.trace) = 0
        /\ q.pc = "plan" => Len(q.trace) = 1
        /\ q.pc = "call_tool" => (q.idx \in 1..q.n /\ Len(q.trace) = 2 * q.idx)
        /\ q.pc = "summarize" => (q.idx \in 1..q.n /\ Len(q.trace) = 2 * q.idx + 1)
        /\ (q.pc = "done" /\ q.result.kind = "reply")
           => ( /\ Len(Events(1, "list_tools")) = 1
                /\ Len(Events(1, "plan")) = 1
                /\ Len(Events(1, "tool")) = q.n
                /\ Len(Events(1, "summary")) = q.n
                /\ Len(q.trace) = 2 + 2 * q.n
                /\ \A p \in DOMAIN q.trace : q.trace[p].out # "raise" )

(* A turn with several tool calls has returned without error *)
C18_Witness ==
    /\ reqs[1].pc = "done"
    /\ reqs[1].result.kind = "reply"
    /\ reqs[1].n >= 2
    /\ Len(Events(1, "summary")) = reqs[1].n

(* The tool calls of the current turn of request r whose tool-result       *)
(* message is in msgs                                                      *)
ResultsIn(msgs, r) ==
    {msgs[i].idx : i \in {j \in DOMAIN msgs : /\ msgs[j].kind = "result"
                                              /\ msgs[j].turn = reqs[r].turn}}

(* C19 as written: the messages sent to the k-th summarization call of a   *)
(* turn hold the tool-result messages of all the tool calls 1..k of the    *)
(* turn, for any number of tool calls.                                     *)
C19_SummarySeesAllResults ==
    reqs[1].pc = "summarize"
    => \A j \in 1..reqs[1].idx : j \in ResultsIn(reqs[1].sent, 1)

(* The tool calls whose result is still in the history when the k-th       *)
(* summarization call goes out: the k-th, and those before it that the     *)
(* trim after summary k - 1 kept, the result of call j then being message  *)
(* 3 * (k - 1 - j) + 2 from the end                                        *)
KeptResults(k) ==
    {j \in 1..k : j = k \/ 3 * (k - 1 - j) + 2 <= 2 * MAX_MEMORY}

(* C19 amended: the messages sent to the k-th summarization call of a turn *)
(* hold the tool-result messages of exactly those tool calls j <= k of the *)
(* turn with 3 * (k - 1 - j) + 2 <= 2 * MAX_MEMORY (with MAX_MEMORY = 5,   *)
(* the calls k - 3 .. k), the earlier ones having been trimmed.            *)
C19_SummarySeesKeptResults ==
    reqs[1].pc = "summarize"
    => ResultsIn(reqs[1].sent, 1) = KeptResults(reqs[1].idx)

(* The fifth summarization call of a turn is under way *)
C19_Witness ==
    /\ reqs[1].pc = "summarize"
    /\ reqs[1].idx = 5
    /\ 1 \notin ResultsIn(reqs[1].sent, 1)
    /\ 2 \in ResultsIn(reqs[1].sent, 1)

(* Guests of the reservation with primary key i, counted when it is R's    *)
(* and its time lies in lo..hi                                             *)
GuestsOfKeyIn(rows, i, R, lo, hi) ==
    LET hit == {r \in rows : /\ r.id = i
                             /\ r.restaurant_id = R
                             /\ r.reservation_time >= lo
                             /\ r.reservation_time <= hi}
    IN  IF hit = {} THEN 0 ELSE (CHOOSE r \in hit : TRUE).guests

RECURSIVE SpanUpTo(_, _, _, _, _)
SpanUpTo(rows, i, R, lo, hi) ==
    IF i = 0 THEN 0
    ELSE GuestsOfKeyIn(rows, i, R, lo, hi) + SpanUpTo(rows, i - 1, R, lo, hi)

(* Sum of the guests of R's reservations with time in lo..hi *)
SpanGuests(rows, R, lo, hi) == SpanUpTo(rows, NextId(rows) - 1, R, lo, hi)

AllGuestsPositive == \A r \in reservations : r.guests > 0

(* C20 as written: under tool calls that run one after another, with       *)
(* positive guest counts, for every restaurant R and time T the guests of  *)
(* R's reservations with time in [T - 1h, T + 1h] are at most R's seating  *)
(* capacity.                                                               *)
C20_NoWindowOverbooked ==
    AllGuestsPositive
    => \A R \in RestaurantIds, T \in WindowTimes :
          SpanGuests(reservations, R, T - HOUR, T + HOUR) <= Capacity(R)

(* C20 amended: under the same conditions, for every restaurant R and time *)
(* T the guests of R's reservations with time in [T, T + 1h], any interval *)
(* one hour long, are at most R's seating capacity.                        *)
C20_NoHourOverbooked ==
    AllGuestsPositive
    => \A R \in RestaurantIds, T \in WindowTimes :
          SpanGuests(reservations, R, T, T + HOUR) <= Capacity(R)

(* Two parties that together exceed the capacity are booked at one         *)
(* restaurant more than one hour and less than two hours apart             *)
C20_Witness ==
    /\ AllGuestsPositive
    /\ \E r, q \in reservations :
          /\ r.restaurant_id = q.restaurant_id
          /\ q.reservation_time - r.reservation_time > HOUR
          /\ q.reservation_time - r.reservation_time < HOUR + HOUR
          /\ r.guests + q.guests > Capacity(r.restaurant_id)

(* The booking in flight follows a lookup that matched a restaurant *)
BookingAfterLookup ==
    /\ call.op = "make_reservation"
    /\ ret.op = "check_availability"
    /\ ret.restaurant # 0
    /\ call = BookingFor(prev)

(* The outcome the lookup's answer promises for the booking *)
BookingAsLookedUp ==
    IF ret.success
    THEN /\ ret'.outcome = "return"
         /\ ret'.success
         /\ \E r \in reservations' :
               /\ reservations' = reservations \cup {r}
               /\ r \notin reservations
               /\ r.restaurant_id = ret.restaurant
               /\ r.reservation_time = call.date_time.t
               /\ r.guests = call.guests
    ELSE /\ ret'.outcome = "return"
         /\ ~ret'.success
         /\ ret'.msg = "Selected time slot is full"
         /\ reservations' = reservations

(* C21 as written: with no change to the store in between, when            *)
(* check_availability(location, T, g, restaurant = N) matched restaurant M *)
(* and returned available = true, make_reservation(N, T, g) succeeds and   *)
(* the reservation is M's; when it returned available = false,             *)
(* make_reservation(N, T, g) fails with the slot-full message.             *)
C21_CheckAndMakeAgree ==
    [][BookingAfterLookup => BookingAsLookedUp]_vars

(* C21 amended: the same, when the name N alone resolves, by first match   *)
(* on the name, to the restaurant M that check_availability matched with   *)
(* location, name and preferences.                                         *)
C21_CheckAndMakeAgreeOnSameRestaurant ==
    [][(BookingAfterLookup /\ ResolvedId(call.restaurant_name) = ret.restaurant)
       => BookingAsLookedUp]_vars

(* A booking that followed a lookup by location and name was refused for   *)
(* lack of room at the restaurant the lookup matched                       *)
C21_Witness ==
    /\ call.op = "none"
    /\ prev.op = "check_availability"
    /\ prev.location = <<"y">>
    /\ prev.restaurant = <<"c">>
    /\ ret.op = "make_reservation"
    /\ ret.msg = "Selected time slot is full"
    /\ ret.restaurant = 2

(* C22: a turn that ends with an error result, whatever failed, leaves the *)
(* history as it was before the turn; no message of the failed turn stays  *)
(* in it.                                                                  *)
C22_ErrorLeavesHistory ==
    (reqs[1].pc = "done" /\ reqs[1].result.kind = "error")
    => ( /\ messages = reqs[1].start
         /\ ~HoldsMessageOf(messages, 1) )

====
